---- MODULE Spec2Model ----
(***************************************************************************)
(* Satisfaction analytics and chef recommendation engine of                *)
(* src/routes/orderRoutes.js, as a state machine over one HTTP request at  *)
(* a time against a read-only feedback store.                              *)
(*                                                                         *)
(* Numbers: ratings are integers; an average is kept as the exact pair     *)
(* (ratingSum, count); a confidence score is kept in percent (0.5 is 50);  *)
(* the satisfaction score is computed in exact arithmetic.                 *)
(* Dates are [year, doy, ms]: calendar year, day of year (1 based) and     *)
(* milliseconds into the day, in UTC.                                      *)
(***************************************************************************)
EXTENDS Integers, Sequences, FiniteSets, TLC

\* ------------------------------------------------------------------ bounds
MaxFeedback == 2      \* feedback records in a store of the main specification
MaxLong == 32         \* feedback records in a store of the long trend family
MaxScoreN == 5        \* ratings averaged in the scorer specification
MaxCount == 4         \* largest per-label count in the scorer specification
MaxHistory == 4       \* feedback records of the customer in the synthesizer specification

\* ------------------------------------------------------- program constants
TrendLimit == 30      \* the $limit stage of the trend
SampleSize == 10      \* { $sample: { size: 10 } }
RecentLimit == 5      \* .slice(0, 5)
SampleSlice == 3      \* .slice(0, 3)
FallbackScore == 50   \* score: 0.5, in percent

\* ------------------------------------------------------------ value domains
Labels == {"positive", "neutral", "negative"}
Ratings == 1..5
NoUser == "anonymous"            \* a feedback record without userId
UserIds == {"u1", "u2"}
ItemOrder == <<"i1", "i2">>      \* the food items, in collection order
ItemIds == {ItemOrder[k] : k \in 1..Len(ItemOrder)}
MissingItem == "i3"              \* a well-formed id of no food item
InvalidId == "not-an-object-id"
Comments == {"", " ", "good"}
Periods == {"day", "week", "month", "year"}
\* What one call of an external capability can do.  The classifier returns a
\* top label with its confidence, or fails (throws, times out, answers with
\* something that is no array of {label, score}).
ClassifierScore == 9 * 10
Outcomes == Labels \cup {"fail"}
CallOutcomes == {"ok", "fail"}
MsPerDay == 24 * 3600 * 1000
NoonMs == 12 * 3600 * 1000

\* -------------------------------------------------------------- sequences
RECURSIVE SumSeq(_)
SumSeq(s) == IF s = <<>> THEN 0 ELSE Head(s) + SumSeq(Tail(s))

RECURSIVE Flatten(_)
Flatten(ss) == IF ss = <<>> THEN <<>> ELSE Head(ss) \o Flatten(Tail(ss))

Take(s, n) == SubSeq(s, 1, IF Len(s) < n THEN Len(s) ELSE n)

Max3(a, b, c) == IF a >= b /\ a >= c THEN a ELSE IF b >= c THEN b ELSE c

\* --------------------------------------------------------------- calendar
IsLeap(y) == (y % 4 = 0 /\ y % 100 # 0) \/ y % 400 = 0
DaysInYear(y) == IF IsLeap(y) THEN 366 ELSE 365
MonthLen(y, m) ==
    IF m = 2 THEN (IF IsLeap(y) THEN 29 ELSE 28)
    ELSE IF m \in {4, 6, 9, 11} THEN 30 ELSE 31
RECURSIVE DaysBeforeMonth(_, _)
DaysBeforeMonth(y, m) ==
    IF m = 1 THEN 0 ELSE DaysBeforeMonth(y, m - 1) + MonthLen(y, m - 1)
MonthOf(y, doy) ==
    CHOOSE m \in 1..12 :
        DaysBeforeMonth(y, m) < doy /\ doy <= DaysBeforeMonth(y, m) + MonthLen(y, m)
LeapsBefore(y) == ((y - 1) \div 4) - ((y - 1) \div 100) + ((y - 1) \div 400)
\* days from 1970-01-01 to the date
EpochDay(y, doy) == 365 * (y - 1970) + (LeapsBefore(y) - LeapsBefore(1970)) + doy - 1
\* 0 = Sunday; 1970-01-01 was a Thursday
DayOfWeek(y, doy) == (4 + EpochDay(y, doy)) % 7
\* $week: weeks begin on Sundays, days before the first Sunday are week 0
WeekOf(y, doy) == (doy + 6 - DayOfWeek(y, doy)) \div 7

DateLE(a, b) ==
    \/ a.year < b.year
    \/ a.year = b.year /\ a.doy < b.doy
    \/ a.year = b.year /\ a.doy = b.doy /\ a.ms <= b.ms
DateLT(a, b) == DateLE(a, b) /\ a # b

\* a date whose day of year ran past the end of its year, brought back
RECURSIVE NormDate(_)
NormDate(d) ==
    IF d.doy > DaysInYear(d.year)
    THEN NormDate([d EXCEPT !.year = d.year + 1, !.doy = d.doy - DaysInYear(d.year)])
    ELSE d

\* ------------------------------------------------------- helper functions
\* getDateGrouping(period): the aggregation operator the trend groups by
getDateGrouping(period) ==
    CASE period = "day" -> "$dayOfYear"
      [] period = "week" -> "$week"
      [] period = "month" -> "$month"
      [] period = "year" -> "$year"
      [] OTHER -> "$month"

\* the value of { <operator>: date }
DateOperator(op, d) ==
    CASE op = "$dayOfYear" -> d.doy
      [] op = "$week" -> WeekOf(d.year, d.doy)
      [] op = "$month" -> MonthOf(d.year, d.doy)
      [] op = "$year" -> d.year

\* new Date(n) of a number n: n milliseconds after 1970-01-01T00:00:00Z
NewDate(n) ==
    NormDate([year |-> 1970, doy |-> 1 + (n \div MsPerDay), ms |-> n % MsPerDay])

\* getNextPeriodDate(date, period)
getNextPeriodDate(date, period) ==
    LET m == MonthOf(date.year, date.doy)
        dom == date.doy - DaysBeforeMonth(date.year, m)
    IN  CASE period = "day" -> NormDate([date EXCEPT !.doy = date.doy + 1])
          [] period = "week" -> NormDate([date EXCEPT !.doy = date.doy + 7])
          [] period = "month" ->
                IF m = 12
                THEN NormDate([date EXCEPT !.year = date.year + 1, !.doy = dom])
                ELSE NormDate([date EXCEPT !.doy = DaysBeforeMonth(date.year, m + 1) + dom])
          [] period = "year" ->
                NormDate([date EXCEPT !.year = date.year + 1,
                                      !.doy = DaysBeforeMonth(date.year + 1, m) + dom])
          [] OTHER -> date

\* text.trim().length === 0 over the comments of the model
Trim(text) == IF text = " " THEN "" ELSE text
IsBlank(text) == text = "" \/ Trim(text) = ""

NeutralResult == [label |-> "neutral", score |-> FallbackScore]

\* as analyzeSentimentSettled, with a catch that reports the failure as negative
analyzeSentimentSettledMutant(o) ==
    IF o = "fail" THEN [label |-> "negative", score |-> 0]
    ELSE [label |-> o, score |-> ClassifierScore]

\* analyzeSentiment(text) once its classifier call has settled with outcome o
analyzeSentimentSettled(o) ==
    IF o = "fail" THEN NeutralResult ELSE [label |-> o, score |-> ClassifierScore]

\* analyzeSentiment(text) before any await: the short circuit, or a call
analyzeSentimentCalls(text) == ~IsBlank(text)

\* the try/catch around hf.textClassification in generateChefRecommendation
chefSentimentSettled(o) ==
    IF o = "fail" THEN NeutralResult ELSE [label |-> o, score |-> ClassifierScore]

\* generateChefRecommendation passes every comment to the classifier
chefSentimentCalls(text) == TRUE

\* sentimentResults.reduce(... , { positive: 0, neutral: 0, negative: 0 })
CountLabel(rs, l) == Cardinality({i \in 1..Len(rs) : rs[i].label = l})

\* as Distribution, with the negative count read under a misspelt key
DistributionMutant(rs) ==
    [positive |-> CountLabel(rs, "positive"),
     neutral |-> CountLabel(rs, "neutral"),
     negative |-> CountLabel(rs, "negativ")]

Distribution(rs) ==
    [positive |-> CountLabel(rs, "positive"),
     neutral |-> CountLabel(rs, "neutral"),
     negative |-> CountLabel(rs, "negative")]

\* an average as the exact fraction num/den
Average(ratings) ==
    IF Len(ratings) = 0 THEN [num |-> 0, den |-> 1]
    ELSE [num |-> SumSeq(ratings), den |-> Len(ratings)]

\* Number.prototype.toFixed(2) of n/d >= 0, in hundredths, ties rounded up
RoundHundredths(n, d) == (2 * 100 * n + d) \div (2 * d)

\* as sentimentRatio, with the positive count left out of Math.max
sentimentRatioMutant(dist) ==
    LET maxSentiment == Max3(0, dist.neutral, dist.negative)
    IN  IF maxSentiment > 0
        THEN [num |-> dist.positive, den |-> maxSentiment]
        ELSE [num |-> 1, den |-> 2]

\* sentimentRatio of calculateSatisfactionScore, as the fraction num/den
sentimentRatio(dist) ==
    LET maxSentiment == Max3(dist.positive, dist.neutral, dist.negative)
    IN  IF maxSentiment > 0
        THEN [num |-> dist.positive, den |-> maxSentiment]
        ELSE [num |-> 1, den |-> 2]

\* as WeightedScore, with the two weights exchanged
WeightedScoreMutant(averageRating, ratio) ==
    RoundHundredths(2 * averageRating.num * 5 * ratio.den + 3 * ratio.num * 25 * averageRating.den,
                    25 * averageRating.den * 5 * ratio.den)

\* parseFloat((averageRating / 5 * 0.6 + sentimentRatio * 0.4).toFixed(2)) * 100:
\* averageRating/5 * 6/10 + ratio * 4/10 over the common denominator
WeightedScore(averageRating, ratio) ==
    RoundHundredths(3 * averageRating.num * 5 * ratio.den + 2 * ratio.num * 25 * averageRating.den,
                    25 * averageRating.den * 5 * ratio.den)

\* calculateSatisfactionScore(averageRating, sentimentDistribution)
calculateSatisfactionScore(averageRating, dist) ==
    WeightedScore(averageRating, sentimentRatio(dist))

\* ------------------------------------------------------------------ state
VARIABLES
    store,            \* FoodItem collection: item id -> its feedback array
    pc,               \* where the request in flight stands
    req,              \* the request in flight
    feedback,         \* the feedback list the handler works on
    calls,            \* per entry of feedback: what its classifier call did
    results,          \* per entry of feedback: the sentiment the code holds
    summary,          \* feedbackSummary of generateChefRecommendation
    summarizerCalls,  \* hf.summarization invocations of this request
    generatorCalls,   \* hf.textGeneration invocations of this request
    scorerCalls,      \* calculateSatisfactionScore invocations of this request
    buckets,          \* the trend's grouped periods (foodItems of the handler)
    trendData,        \* resultsWithSentiment, bucket by bucket
    response,         \* what the request answered
    storeFault,       \* which store query of this request failed, if any
    scoreArgs,        \* scorer specification: the arguments
    scoreValue        \* scorer specification: the value returned

vars == <<store, pc, req, feedback, calls, results, summary, summarizerCalls,
          generatorCalls, scorerCalls, buckets, trendData, response,
          storeFault, scoreArgs, scoreValue>>

NoRequest == [kind |-> "none", id |-> "", period |-> ""]
NoResponse == [status |-> 0, body |-> [kind |-> "none"]]
NoScoreArgs == [ratings |-> <<>>, dist |-> [positive |-> 0, neutral |-> 0, negative |-> 0]]
Pending == [label |-> "pending", score |-> 0]

\* ------------------------------------------------------------ the store
\* createdAt of the k-th record written to a store of the main family
TimeOf(k) ==
    IF k = 1 THEN [year |-> 1970, doy |-> 1, ms |-> NoonMs]
    ELSE [year |-> 2024, doy |-> 30 + k, ms |-> NoonMs]

\* who wrote the feedback of a store: u2 has written none
Authors == {NoUser, "u1"}
RecordChoices == [item : ItemIds, userId : Authors, rating : Ratings, comment : Comments]

\* the store after the records recs were written in order, each to its item
BuildStore(recs) ==
    [it \in ItemIds |->
        LET RECURSIVE Collect(_)
            Collect(k) ==
                IF k > Len(recs) THEN <<>>
                ELSE (IF recs[k].item = it
                      THEN <<[id |-> k, userId |-> recs[k].userId,
                              rating |-> recs[k].rating,
                              comment |-> recs[k].comment,
                              createdAt |-> recs[k].createdAt]>>
                      ELSE <<>>) \o Collect(k + 1)
        IN  Collect(1)]

Dated(c, k) ==
    [item |-> c[k].item, userId |-> c[k].userId, rating |-> c[k].rating,
     comment |-> c[k].comment, createdAt |-> TimeOf(k)]
MainStores(max) ==
    UNION {{BuildStore([k \in 1..n |-> Dated(c, k)]) : c \in [1..n -> RecordChoices]}
           : n \in 0..max}

\* a date some days later
AddDays(d, n) == NormDate([d EXCEPT !.doy = d.doy + n])

\* the long family of the trend specification: n anonymous records, one every
\* stride days from start, on alternating items
LongStarts ==
    {[year |-> 2023, doy |-> 350, ms |-> NoonMs], [year |-> 2024, doy |-> 1, ms |-> NoonMs]}
LongStrides == {1, 7, 31}
LongRecord(k, start, stride) ==
    [item |-> ItemOrder[1 + (k % 2)], userId |-> NoUser, rating |-> 1 + (k % 5),
     comment |-> "good", createdAt |-> AddDays(start, (k - 1) * stride)]
LongStores ==
    {BuildStore([k \in 1..n |-> LongRecord(k, start, stride)]) :
        n \in 1..MaxLong, start \in LongStarts, stride \in LongStrides}

\* the dated family of the trend specification: up to MaxFeedback anonymous
\* records of the first item, each on any of these days
TrendTimes ==
    {[year |-> 1970, doy |-> 1, ms |-> NoonMs], [year |-> 1970, doy |-> 20, ms |-> NoonMs],
     [year |-> 2023, doy |-> 32, ms |-> NoonMs], [year |-> 2024, doy |-> 32, ms |-> NoonMs],
     [year |-> 2024, doy |-> 61, ms |-> NoonMs]}
DatedChoices ==
    [item : {ItemOrder[1]}, userId : {NoUser}, rating : {2}, comment : {"", "good"},
     createdAt : TrendTimes]
DatedStores(max) ==
    UNION {{BuildStore(c) : c \in [1..n -> DatedChoices]} : n \in 0..max}

\* the history family of the synthesizer specification: n records of customer
\* u1, written one after the other, all to the first item or to the items in
\* turn, with ratings that vary or are all 5, every third comment empty
HistoryLayouts == {"oneItem", "inTurn"}
HistoryRatings == {"varied", "allFive"}
HistoryRecord(k, layout, pattern) ==
    [item |-> IF layout = "oneItem" THEN ItemOrder[1] ELSE ItemOrder[1 + (k % 2)],
     userId |-> "u1",
     rating |-> IF pattern = "varied" THEN 1 + (k % 5) ELSE 5,
     comment |-> IF k % 3 = 0 THEN "" ELSE "good",
     createdAt |-> TimeOf(k)]
ChefStores ==
    {BuildStore([k \in 1..n |-> HistoryRecord(k, layout, pattern)]) :
        n \in 1..MaxHistory, layout \in HistoryLayouts, pattern \in HistoryRatings}

\* the arguments of the scorer specification: ratings (largest first, their
\* order does not enter the average) and any counts per label
RatingLists ==
    UNION {{r \in [1..n -> Ratings] : \A k \in 1..(n - 1) : r[k] >= r[k + 1]}
           : n \in 0..MaxScoreN}
ScoreInputs ==
    [ratings : RatingLists,
     dist : [positive : 0..MaxCount, neutral : 0..MaxCount, negative : 0..MaxCount]]

\* FoodItem.find(...): the items in collection order, each feedback entry with
\* the name of its item
WithItem(it) ==
    [k \in 1..Len(store[it]) |->
        [id |-> store[it][k].id, userId |-> store[it][k].userId,
         rating |-> store[it][k].rating, comment |-> store[it][k].comment,
         createdAt |-> store[it][k].createdAt, foodItem |-> it]]
AllFeedback == Flatten([k \in 1..Len(ItemOrder) |-> WithItem(ItemOrder[k])])
FeedbackOfUser(u) ==
    LET Mine(fb) == fb.userId # NoUser /\ fb.userId = u
    IN  SelectSeq(AllFeedback, Mine)

RatingsOf(fbs) == [k \in 1..Len(fbs) |-> fbs[k].rating]
NonePending == \A i \in 1..Len(calls) : calls[i] # "pending"

\* Promise.all(list.map(...)) as the calls are issued; flags[i] tells whether
\* entry i makes a classifier call, and an entry that makes none has its
\* result at once
FanOutCalls(flags) ==
    [i \in 1..Len(flags) |-> IF flags[i] THEN "pending" ELSE "skipped"]
FanOutResults(flags) ==
    [i \in 1..Len(flags) |-> IF flags[i] THEN Pending ELSE NeutralResult]
\* allUserFeedback.map(async (fb) => ...) of generateChefRecommendation
ChefCallFlags(fbs) == [i \in 1..Len(fbs) |-> chefSentimentCalls(fbs[i].comment)]
\* list.map(fb => analyzeSentiment(fb.comment))
SentimentCallFlags(fbs) == [i \in 1..Len(fbs) |-> analyzeSentimentCalls(fbs[i].comment)]

\* no request in flight
Idle ==
    /\ pc = "idle"
    /\ req = NoRequest
    /\ feedback = <<>>
    /\ calls = <<>>
    /\ results = <<>>
    /\ summary = "none"
    /\ summarizerCalls = 0
    /\ generatorCalls = 0
    /\ scorerCalls = 0
    /\ buckets = <<>>
    /\ trendData = <<>>
    /\ response = NoResponse
    /\ storeFault = "none"

Init ==
    /\ store \in MainStores(MaxFeedback)
    /\ Idle
    /\ scoreArgs = NoScoreArgs
    /\ scoreValue = -1

TrendInit ==
    /\ store \in LongStores \cup DatedStores(MaxFeedback)
    /\ Idle
    /\ scoreArgs = NoScoreArgs
    /\ scoreValue = -1

ScoreInit ==
    /\ store = BuildStore(<<>>)
    /\ Idle
    /\ scoreArgs \in ScoreInputs
    /\ scoreValue = -1

\* a request begins with nothing left of the one before
Fresh ==
    /\ pc = "idle"
    /\ UNCHANGED <<store, scoreArgs, scoreValue>>

Respond(status, body) ==
    /\ response' = [status |-> status, body |-> body]
    /\ pc' = "done"

\* ------------------------------------- generateChefRecommendation, GET /chef
DefaultAnalysis(kind) ==
    [kind |-> kind, priority |-> "normal", sentiment |-> "neutral", feedbackHistory |-> <<>>]

\* as ChefPriority, with avgRating <= 2.5 for avgRating < 2.5
ChefPriorityMutant(avg, negativeCount, total) ==
    IF 2 * avg.num <= 5 * avg.den \/ 2 * negativeCount > total THEN "high"
    ELSE IF 5 * avg.num > 21 * avg.den /\ negativeCount = 0 THEN "low"
    ELSE "normal"

\* avgRating < 2.5 || negativeFeedbackCount > length * 0.5, then
\* avgRating > 4.2 && negativeFeedbackCount === 0, over avgRating = avg.num/avg.den
ChefPriority(avg, negativeCount, total) ==
    IF 2 * avg.num < 5 * avg.den \/ 2 * negativeCount > total THEN "high"
    ELSE IF 5 * avg.num > 21 * avg.den /\ negativeCount = 0 THEN "low"
    ELSE "normal"

\* avgRating >= 3 ? "positive" : avgRating >= 2 ? "neutral" : "negative"
ChefSentiment(avg) ==
    IF avg.num >= 3 * avg.den THEN "positive"
    ELSE IF avg.num >= 2 * avg.den THEN "neutral"
    ELSE "negative"

\* feedbackWithSentiment.slice(0, 3).map(...)
FeedbackSamples(fbs, rs) ==
    LET n == Len(Take(fbs, SampleSlice))
    IN  [k \in 1..n |->
            [foodItem |-> fbs[k].foodItem, comment |-> fbs[k].comment,
             rating |-> fbs[k].rating, sentiment |-> rs[k].label,
             date |-> fbs[k].createdAt]]

\* the object generateChefRecommendation returns for a non-empty history
ChefAnalysis(fbs, rs, recommendation) ==
    LET avg == Average(RatingsOf(fbs))
        negativeCount == CountLabel(rs, "negative")
    IN  [kind |-> "recommendation",
         recommendation |-> recommendation,
         priority |-> ChefPriority(avg, negativeCount, Len(fbs)),
         sentiment |-> ChefSentiment(avg),
         historicalData |->
            [averageRating |-> avg, totalFeedback |-> Len(fbs),
             negativeFeedbackCount |-> negativeCount,
             positiveFeedbackCount |-> CountLabel(rs, "positive")],
         feedbackSamples |-> FeedbackSamples(fbs, rs)]

\* as NoHistory, with the early return never taken
NoHistoryMutant(fbs) == FALSE

\* allUserFeedback.length === 0
NoHistory(fbs) == Len(fbs) = 0

\* GET /chef?analyze=true for one open order of customer u, up to the first
\* await that settles later: the orders query, then for a registered customer
\* generateChefRecommendation's feedback query and its classifier fan-out
ChefRequest(u, ordersQuery, feedbackQuery) ==
    /\ Fresh
    /\ req' = [kind |-> "chef", id |-> u, period |-> ""]
    /\ storeFault' = IF ordersQuery = "fail" THEN "orders"
                     ELSE IF u # NoUser /\ feedbackQuery = "fail" THEN "feedback"
                     ELSE "none"
    /\ UNCHANGED <<summary, summarizerCalls, generatorCalls, scorerCalls, buckets, trendData>>
    /\ IF ordersQuery = "fail"
       THEN /\ Respond(500, [kind |-> "error"])
            /\ UNCHANGED <<feedback, calls, results>>
       ELSE IF u = NoUser
       THEN /\ Respond(200, DefaultAnalysis("guest"))
            /\ UNCHANGED <<feedback, calls, results>>
       ELSE IF feedbackQuery = "fail"
       THEN \* the catch of lines 166-175
            /\ Respond(200, DefaultAnalysis("errorDefault"))
            /\ UNCHANGED <<feedback, calls, results>>
       ELSE IF NoHistory(FeedbackOfUser(u))
       THEN /\ Respond(200, DefaultAnalysis("noHistory"))
            /\ UNCHANGED <<feedback, calls, results>>
       ELSE /\ feedback' = FeedbackOfUser(u)
            /\ calls' = FanOutCalls(ChefCallFlags(FeedbackOfUser(u)))
            /\ results' = FanOutResults(ChefCallFlags(FeedbackOfUser(u)))
            /\ pc' = "classify"
            /\ UNCHANGED response

\* one classifier call of the recommendation settles
ChefClassifierSettles(i, o) ==
    /\ pc = "classify"
    /\ req.kind = "chef"
    /\ i \in 1..Len(calls)
    /\ calls[i] = "pending"
    /\ calls' = [calls EXCEPT ![i] = o]
    /\ results' = [results EXCEPT ![i] = chefSentimentSettled(o)]
    /\ UNCHANGED <<store, pc, req, feedback, summary, summarizerCalls, generatorCalls,
                   scorerCalls, buckets, trendData, response, storeFault, scoreArgs, scoreValue>>

\* Promise.all has resolved: the digest is built and hf.summarization called
ChefSummarize ==
    /\ pc = "classify"
    /\ req.kind = "chef"
    /\ NonePending
    /\ summarizerCalls' = summarizerCalls + 1
    /\ pc' = "summarize"
    /\ UNCHANGED <<store, req, feedback, calls, results, summary, generatorCalls,
                   scorerCalls, buckets, trendData, response, storeFault, scoreArgs, scoreValue>>

\* as SummarizerSettles, with a failed summarization attempted a second time
SummarizerSettlesMutant(o) ==
    /\ pc = "summarize"
    /\ IF o = "fail" /\ summarizerCalls < 2
       THEN /\ summarizerCalls' = summarizerCalls + 1
            /\ UNCHANGED <<summary, generatorCalls, pc>>
       ELSE /\ summary' = IF o = "ok" THEN "summary_text" ELSE "fallback-summary"
            /\ generatorCalls' = generatorCalls + 1
            /\ pc' = "generate"
            /\ UNCHANGED summarizerCalls
    /\ UNCHANGED <<store, req, feedback, calls, results,
                   scorerCalls, buckets, trendData, response, storeFault, scoreArgs, scoreValue>>

\* hf.summarization settles; the prompt is built and hf.textGeneration called
SummarizerSettles(o) ==
    /\ pc = "summarize"
    /\ summary' = IF o = "ok" THEN "summary_text" ELSE "fallback-summary"
    /\ generatorCalls' = generatorCalls + 1
    /\ pc' = "generate"
    /\ UNCHANGED <<store, req, feedback, calls, results, summarizerCalls,
                   scorerCalls, buckets, trendData, response, storeFault, scoreArgs, scoreValue>>

\* hf.textGeneration settles; priority and sentiment are computed and the
\* analysis returned
GeneratorSettles(o) ==
    /\ pc = "generate"
    /\ Respond(200, ChefAnalysis(feedback, results,
                    IF o = "ok" THEN "generated_text" ELSE "fallback-recommendation"))
    /\ UNCHANGED <<store, req, feedback, calls, results, summary, summarizerCalls,
                   generatorCalls, scorerCalls, buckets, trendData, storeFault, scoreArgs, scoreValue>>

\* ------------------------------------------------ the satisfaction handlers
\* one classifier call made by analyzeSentiment settles
SentimentSettles(i, o) ==
    /\ pc = "classify"
    /\ req.kind \in {"dashboard", "customer", "foodItem"}
    /\ i \in 1..Len(calls)
    /\ calls[i] = "pending"
    /\ calls' = [calls EXCEPT ![i] = o]
    /\ results' = [results EXCEPT ![i] = analyzeSentimentSettled(o)]
    /\ UNCHANGED <<store, pc, req, feedback, summary, summarizerCalls, generatorCalls,
                   scorerCalls, buckets, trendData, response, storeFault, scoreArgs, scoreValue>>

\* list.sort((a, b) => new Date(b.createdAt) - new Date(a.createdAt)):
\* newest first, equal dates in their former order
RECURSIVE InsertNewestFirst(_, _)
InsertNewestFirst(sorted, x) ==
    IF sorted = <<>> THEN <<x>>
    ELSE IF DateLT(Head(sorted).createdAt, x.createdAt) THEN <<x>> \o sorted
    ELSE <<Head(sorted)>> \o InsertNewestFirst(Tail(sorted), x)
RECURSIVE SortNewestFirst(_)
SortNewestFirst(xs) ==
    IF xs = <<>> THEN <<>>
    ELSE InsertNewestFirst(SortNewestFirst(SubSeq(xs, 1, Len(xs) - 1)), xs[Len(xs)])

\* recentFeedback of the dashboard and of the customer profile: the sentiment
\* is looked up by sentimentResults.find(sr => sr.input === fb.comment), and
\* no sentiment result has an input field
RecentByInput(fbs, rs) ==
    LET top == Take(SortNewestFirst(fbs), RecentLimit)
    IN  [k \in 1..Len(top) |->
            [id |-> top[k].id, rating |-> top[k].rating, comment |-> top[k].comment,
             sentiment |-> "neutral", date |-> top[k].createdAt]]

\* recentFeedback of the food item profile: sentimentResults[index] after the sort
RecentByIndex(fbs, rs) ==
    LET top == Take(SortNewestFirst(fbs), RecentLimit)
    IN  [k \in 1..Len(top) |->
            [id |-> top[k].id, rating |-> top[k].rating, comment |-> top[k].comment,
             sentiment |-> rs[k].label, date |-> top[k].createdAt]]

\* the metrics of a satisfaction response
Metrics(fbs, rs) ==
    [totalFeedback |-> Len(fbs),
     averageRating |-> Average(RatingsOf(fbs)),
     sentimentDistribution |-> Distribution(rs),
     satisfactionScore |-> calculateSatisfactionScore(Average(RatingsOf(fbs)), Distribution(rs))]

\* GET /analytics/satisfaction up to the classifier fan-out
DashboardRequest(query) ==
    /\ Fresh
    /\ req' = [kind |-> "dashboard", id |-> "", period |-> ""]
    /\ storeFault' = IF query = "fail" THEN "feedback" ELSE "none"
    /\ UNCHANGED <<summary, summarizerCalls, generatorCalls, scorerCalls, buckets, trendData>>
    /\ IF query = "fail"
       THEN /\ Respond(500, [kind |-> "error"])
            /\ UNCHANGED <<feedback, calls, results>>
       ELSE /\ feedback' = AllFeedback
            /\ calls' = FanOutCalls(SentimentCallFlags(AllFeedback))
            /\ results' = FanOutResults(SentimentCallFlags(AllFeedback))
            /\ pc' = "classify"
            /\ UNCHANGED response

\* GET /analytics/satisfaction once every sentiment is in: the later store
\* queries, and the metrics with the score
DashboardRespond(query) ==
    /\ pc = "classify"
    /\ req.kind = "dashboard"
    /\ NonePending
    /\ IF query = "fail"
       THEN /\ Respond(500, [kind |-> "error"])
            /\ UNCHANGED scorerCalls
       ELSE /\ Respond(200, [kind |-> "profile", metrics |-> Metrics(feedback, results),
                              recentFeedback |-> RecentByInput(feedback, results)])
            /\ scorerCalls' = scorerCalls + 1
    /\ storeFault' = IF query = "fail" THEN "orders" ELSE storeFault
    /\ UNCHANGED <<store, req, feedback, calls, results, summary, summarizerCalls,
                   generatorCalls, buckets, trendData, scoreArgs, scoreValue>>

\* GET /analytics/customers/:id/satisfaction up to the classifier fan-out
CustomerRequest(id, query) ==
    /\ Fresh
    /\ req' = [kind |-> "customer", id |-> id, period |-> ""]
    /\ storeFault' = IF id # InvalidId /\ query = "fail" THEN "feedback" ELSE "none"
    /\ UNCHANGED <<summary, summarizerCalls, generatorCalls, scorerCalls, buckets, trendData>>
    /\ IF id = InvalidId
       THEN /\ Respond(400, [kind |-> "invalid"])
            /\ UNCHANGED <<feedback, calls, results>>
       ELSE IF query = "fail"
       THEN /\ Respond(500, [kind |-> "error"])
            /\ UNCHANGED <<feedback, calls, results>>
       ELSE IF Len(FeedbackOfUser(id)) = 0
       THEN /\ Respond(200, [kind |-> "noFeedback", hasFeedback |-> FALSE])
            /\ UNCHANGED <<feedback, calls, results>>
       ELSE /\ feedback' = FeedbackOfUser(id)
            /\ calls' = FanOutCalls(SentimentCallFlags(FeedbackOfUser(id)))
            /\ results' = FanOutResults(SentimentCallFlags(FeedbackOfUser(id)))
            /\ pc' = "classify"
            /\ UNCHANGED response

\* GET /analytics/food-items/:id/satisfaction up to the classifier fan-out
FoodItemRequest(id, query) ==
    /\ Fresh
    /\ req' = [kind |-> "foodItem", id |-> id, period |-> ""]
    /\ storeFault' = IF id # InvalidId /\ query = "fail" THEN "feedback" ELSE "none"
    /\ UNCHANGED <<summary, summarizerCalls, generatorCalls, scorerCalls, buckets, trendData>>
    /\ IF id = InvalidId
       THEN /\ Respond(400, [kind |-> "invalid"])
            /\ UNCHANGED <<feedback, calls, results>>
       ELSE IF query = "fail"
       THEN /\ Respond(500, [kind |-> "error"])
            /\ UNCHANGED <<feedback, calls, results>>
       ELSE IF id \notin ItemIds
       THEN /\ Respond(404, [kind |-> "notFound"])
            /\ UNCHANGED <<feedback, calls, results>>
       ELSE IF Len(store[id]) = 0
       THEN /\ Respond(200, [kind |-> "noFeedback", hasFeedback |-> FALSE])
            /\ UNCHANGED <<feedback, calls, results>>
       ELSE /\ feedback' = WithItem(id)
            /\ calls' = FanOutCalls(SentimentCallFlags(WithItem(id)))
            /\ results' = FanOutResults(SentimentCallFlags(WithItem(id)))
            /\ pc' = "classify"
            /\ UNCHANGED response

\* a per-customer or per-item profile once every sentiment is in
ProfileRespond(query) ==
    /\ pc = "classify"
    /\ req.kind \in {"customer", "foodItem"}
    /\ NonePending
    /\ IF query = "fail"
       THEN /\ Respond(500, [kind |-> "error"])
            /\ UNCHANGED scorerCalls
       ELSE /\ Respond(200, [kind |-> "profile", metrics |-> Metrics(feedback, results),
                              recentFeedback |->
                                  IF req.kind = "customer"
                                  THEN RecentByInput(feedback, results)
                                  ELSE RecentByIndex(feedback, results)])
            /\ scorerCalls' = scorerCalls + 1
    /\ storeFault' = IF query = "fail" THEN "orders" ELSE storeFault
    /\ UNCHANGED <<store, req, feedback, calls, results, summary, summarizerCalls,
                   generatorCalls, buckets, trendData, scoreArgs, scoreValue>>

\* --------------------------------------- GET /analytics/satisfaction-trend
\* the ascending sequence of the numbers of a set
RECURSIVE SortAscending(_)
SortAscending(S) ==
    IF S = {} THEN <<>>
    ELSE LET lo == CHOOSE x \in S : \A y \in S : x <= y
         IN  <<lo>> \o SortAscending(S \ {lo})

\* as LimitStage, with the $limit stage left out
LimitStageMutant(docs) == docs

\* { $limit: 30 }
LimitStage(docs) == Take(docs, TrendLimit)

\* $unwind, $group by { <operator>: '$feedback.createdAt' }, $sort { _id: 1 },
\* $limit 30
GroupByPeriod(fbs, period) ==
    LET Key(fb) == DateOperator(getDateGrouping(period), fb.createdAt)
        keys == SortAscending({Key(fbs[k]) : k \in 1..Len(fbs)})
        Group(key) ==
            LET In(fb) == Key(fb) = key
                members == SelectSeq(fbs, In)
            IN  [_id |-> key, ratingSum |-> SumSeq(RatingsOf(members)),
                 count |-> Len(members)]
    IN  LimitStage([k \in 1..Len(keys) |-> Group(keys[k])])

\* $match createdAt in [new Date(_id), getNextPeriodDate(new Date(_id), period))
InWindow(fb, id, period) ==
    /\ DateLE(NewDate(id), fb.createdAt)
    /\ DateLT(fb.createdAt, getNextPeriodDate(NewDate(id), period))

Min2(a, b) == IF a < b THEN a ELSE b

\* { $sample: { size: 10 } }: the samples a window can give, as index sets
Samples(fbs, id, period) ==
    LET window == {k \in 1..Len(fbs) : InWindow(fbs[k], id, period)}
    IN  {S \in SUBSET window : Cardinality(S) = Min2(SampleSize, Cardinality(window))}

\* the members of an index set, in index order
Pick(fbs, S) ==
    LET idx == SortAscending(S)
    IN  [k \in 1..Len(idx) |-> fbs[idx[k]]]

\* what the calls of a sample can do
SampleCalls(sample) ==
    {cs \in [1..Len(sample) -> Outcomes \cup {"skipped"}] :
        \A i \in 1..Len(sample) :
            (cs[i] = "skipped") <=> ~analyzeSentimentCalls(sample[i].comment)}

TrendRequest(period, query) ==
    /\ Fresh
    /\ req' = [kind |-> "trend", id |-> "", period |-> period]
    /\ storeFault' = IF query = "fail" THEN "feedback" ELSE "none"
    /\ UNCHANGED <<summary, summarizerCalls, generatorCalls, scorerCalls,
                   feedback, calls, results, trendData>>
    /\ IF query = "fail"
       THEN /\ Respond(500, [kind |-> "error"])
            /\ UNCHANGED buckets
       ELSE /\ buckets' = GroupByPeriod(AllFeedback, period)
            /\ pc' = "trend"
            /\ UNCHANGED response

\* the sentiment of the next period: its window is sampled and every sampled
\* comment goes through analyzeSentiment; cs is what each call did
TrendBucket(query, S, cs) ==
    /\ pc = "trend"
    /\ Len(trendData) < Len(buckets)
    /\ LET b == buckets[Len(trendData) + 1]
           sample == Pick(AllFeedback, S)
       IN  IF query = "fail"
           THEN /\ Respond(500, [kind |-> "error"])
                /\ UNCHANGED <<feedback, calls, results, trendData>>
           ELSE /\ S \in Samples(AllFeedback, b._id, req.period)
                /\ cs \in SampleCalls(sample)
                /\ feedback' = sample
                /\ calls' = cs
                /\ results' = [i \in 1..Len(sample) |->
                                  IF cs[i] = "skipped" THEN NeutralResult
                                  ELSE analyzeSentimentSettled(cs[i])]
                /\ trendData' = Append(trendData,
                                    [_id |-> b._id, ratingSum |-> b.ratingSum,
                                     count |-> b.count,
                                     sentiment |-> Distribution(results')])
                /\ UNCHANGED <<pc, response>>
    /\ storeFault' = IF query = "fail" THEN "feedback" ELSE storeFault
    /\ UNCHANGED <<store, req, summary, summarizerCalls, generatorCalls, scorerCalls,
                   buckets, scoreArgs, scoreValue>>

TrendRespond ==
    /\ pc = "trend"
    /\ Len(trendData) = Len(buckets)
    /\ Respond(200, [kind |-> "trend", period |-> req.period, data |-> trendData])
    /\ UNCHANGED <<store, req, feedback, calls, results, summary, summarizerCalls,
                   generatorCalls, scorerCalls, buckets, trendData, storeFault, scoreArgs, scoreValue>>

\* --------------------------------------------------------- specifications
\* the response is out; the next request starts from nothing
Finish ==
    /\ pc = "done"
    /\ pc' = "idle"
    /\ req' = NoRequest
    /\ feedback' = <<>>
    /\ calls' = <<>>
    /\ results' = <<>>
    /\ summary' = "none"
    /\ summarizerCalls' = 0
    /\ generatorCalls' = 0
    /\ scorerCalls' = 0
    /\ buckets' = <<>>
    /\ trendData' = <<>>
    /\ response' = NoResponse
    /\ storeFault' = "none"
    /\ UNCHANGED <<store, scoreArgs, scoreValue>>

TrendStep ==
    /\ pc = "trend"
    /\ Len(trendData) < Len(buckets)
    /\ \E query \in CallOutcomes :
       \E S \in Samples(AllFeedback, buckets[Len(trendData) + 1]._id, req.period) :
       \E cs \in SampleCalls(Pick(AllFeedback, S)) :
           TrendBucket(query, S, cs)

Next ==
    \/ \E u \in Authors, oq \in CallOutcomes, fq \in CallOutcomes : ChefRequest(u, oq, fq)
    \/ \E i \in 1..MaxFeedback, o \in Outcomes : ChefClassifierSettles(i, o)
    \/ ChefSummarize
    \/ \E o \in CallOutcomes : SummarizerSettles(o)
    \/ \E o \in CallOutcomes : GeneratorSettles(o)
    \/ \E q \in CallOutcomes : DashboardRequest(q)
    \/ \E q \in CallOutcomes : DashboardRespond(q)
    \/ \E id \in UserIds \cup {InvalidId}, q \in CallOutcomes : CustomerRequest(id, q)
    \/ \E id \in ItemIds \cup {MissingItem, InvalidId}, q \in CallOutcomes :
           FoodItemRequest(id, q)
    \/ \E i \in 1..MaxFeedback, o \in Outcomes : SentimentSettles(i, o)
    \/ \E q \in CallOutcomes : ProfileRespond(q)
    \/ \E p \in Periods, q \in CallOutcomes : TrendRequest(p, q)
    \/ TrendStep
    \/ TrendRespond
    \/ Finish

Spec == Init /\ [][Next]_vars

\* the trend handler alone, over stores with many periods and over dated stores
TrendNext ==
    \/ \E p \in Periods, q \in CallOutcomes : TrendRequest(p, q)
    \/ TrendStep
    \/ TrendRespond
    \/ Finish

TrendSpec == TrendInit /\ [][TrendNext]_vars

\* calculateSatisfactionScore applied to the arguments drawn
ApplyScore ==
    /\ scoreValue = -1
    /\ scoreValue' = calculateSatisfactionScore(Average(scoreArgs.ratings), scoreArgs.dist)
    /\ UNCHANGED <<store, pc, req, feedback, calls, results, summary, summarizerCalls,
                   generatorCalls, scorerCalls, buckets, trendData, response, storeFault,
                   scoreArgs>>

ScoreNext == ApplyScore

ScoreSpec == ScoreInit /\ [][ScoreNext]_vars

\* the synthesizer alone, over the histories of one customer
ChefInit ==
    /\ store \in ChefStores
    /\ Idle
    /\ scoreArgs = NoScoreArgs
    /\ scoreValue = -1

ChefNext ==
    \/ \E u \in Authors, oq \in CallOutcomes, fq \in CallOutcomes : ChefRequest(u, oq, fq)
    \/ \E i \in 1..MaxHistory, o \in Outcomes : ChefClassifierSettles(i, o)
    \/ ChefSummarize
    \/ \E o \in CallOutcomes : SummarizerSettles(o)
    \/ \E o \in CallOutcomes : GeneratorSettles(o)
    \/ Finish

\* every call of an external capability settles, with a value or an error, and
\* the continuation that awaits it then runs
ChefFairness ==
    /\ WF_vars(\E i \in 1..MaxHistory, o \in Outcomes : ChefClassifierSettles(i, o))
    /\ WF_vars(ChefSummarize)
    /\ WF_vars(\E o \in CallOutcomes : SummarizerSettles(o))
    /\ WF_vars(\E o \in CallOutcomes : GeneratorSettles(o))

ChefSpec == ChefInit /\ [][ChefNext]_vars /\ ChefFairness

\* ----------------------------------------------------------------- claims
Scopes == {"dashboard", "customer", "foodItem"}
Body == response.body

\* C1: with a non-empty feedback set, whatever subset of the classifier calls
\* fails, every failed comment holds neutral with score 0.5, every other
\* classified comment holds the label its own call returned, and the scorer and
\* the synthesizer answer with a well-formed result unless a store query failed.
C1_ClassifierFailureIsolated ==
    (req.kind \in Scopes \cup {"chef"} /\ Len(feedback) > 0) =>
        /\ \A i \in 1..Len(feedback) :
              /\ calls[i] = "fail" => results[i] = [label |-> "neutral", score |-> 50]
              /\ calls[i] \in Labels => results[i].label = calls[i]
        /\ (pc = "done" /\ storeFault = "none") =>
              /\ response.status = 200
              /\ req.kind = "chef" =>
                    /\ Body.kind = "recommendation"
                    /\ Body.priority \in {"low", "normal", "high"}
                    /\ Body.sentiment \in Labels
                    /\ Body.historicalData.totalFeedback = Len(feedback)
                    /\ \A k \in 1..Len(Body.feedbackSamples) :
                          Body.feedbackSamples[k].sentiment = results[k].label
              /\ req.kind \in Scopes =>
                    /\ Body.kind = "profile"
                    /\ Body.metrics.totalFeedback = Len(feedback)
                    /\ Body.metrics.satisfactionScore \in 0..100
                    /\ \A l \in Labels :
                          Body.metrics.sentimentDistribution[l] =
                              Cardinality({i \in 1..Len(results) : results[i].label = l})

C1_Witness ==
    /\ pc = "done"
    /\ req.kind = "dashboard"
    /\ response.status = 200
    /\ \E i, j \in 1..Len(calls) : calls[i] = "fail" /\ calls[j] = "negative"

\* no record of the store is by customer u
NoRecordsOf(u) ==
    \A it \in ItemIds : \A k \in 1..Len(store[it]) : store[it][k].userId # u

\* C2: when the customer has no feedback record, generateChefRecommendation
\* returns the no-history default (priority normal, sentiment neutral) and the
\* request ends with no classifier, summarizer or generator call made.
C2_NoHistoryDefault ==
    (req.kind = "chef" /\ req.id # NoUser /\ storeFault = "none" /\ NoRecordsOf(req.id)) =>
        /\ pc = "done"
        /\ response.status = 200
        /\ Body = [kind |-> "noHistory", priority |-> "normal", sentiment |-> "neutral",
                   feedbackHistory |-> <<>>]
        /\ calls = <<>>
        /\ summarizerCalls = 0
        /\ generatorCalls = 0

C2_Witness ==
    /\ req.kind = "chef"
    /\ Body.kind = "noHistory"
    /\ \E it \in ItemIds : Len(store[it]) > 0

\* C3: for a non-empty history the priority is high if averageRating < 2.5 or
\* negativeCount > 0.5 * totalFeedback, otherwise low if averageRating > 4.2 and
\* negativeCount = 0, otherwise normal, whether or not the summarizer and the
\* generator failed.
C3_PriorityRule ==
    (req.kind = "chef" /\ Body.kind = "recommendation") =>
        LET total == Len(feedback)
            ratingSum == SumSeq([k \in 1..total |-> feedback[k].rating])
            negativeCount == Cardinality({i \in 1..total : results[i].label = "negative"})
            isHigh == 2 * ratingSum < 5 * total \/ 2 * negativeCount > total
            isLow == ~isHigh /\ 10 * ratingSum > 42 * total /\ negativeCount = 0
        IN  /\ total > 0
            /\ (Body.priority = "high") <=> isHigh
            /\ (Body.priority = "low") <=> isLow
            /\ (Body.priority = "normal") <=> (~isHigh /\ ~isLow)

C3_Witness ==
    /\ req.kind = "chef"
    /\ Body.kind = "recommendation"
    /\ Body.priority = "low"
    /\ summary = "fallback-summary"
    /\ Body.recommendation = "fallback-recommendation"

ScopeEmpty ==
    CASE req.kind = "dashboard" -> \A it \in ItemIds : Len(store[it]) = 0
      [] req.kind = "customer" -> req.id \in UserIds /\ NoRecordsOf(req.id)
      [] req.kind = "foodItem" -> req.id \in ItemIds /\ Len(store[req.id]) = 0
      [] OTHER -> FALSE

\* C5: in every scope, when totalFeedback = 0 the satisfaction score is not
\* computed: calculateSatisfactionScore is not invoked and the response carries
\* no satisfactionScore.
C5_NoScoreWithoutFeedback ==
    (req.kind \in Scopes /\ ScopeEmpty) =>
        /\ scorerCalls = 0
        /\ Body.kind # "profile"

\* C6: for an average of ratings in 1..5 and any counts per label, the value
\* of calculateSatisfactionScore lies in [0, 100].
C6_ScoreInRange ==
    (scoreValue # -1 /\ Len(scoreArgs.ratings) >= 1) =>
        (0 <= scoreValue /\ scoreValue <= 100)

C6_Witness ==
    /\ scoreValue = 100
    /\ Len(scoreArgs.ratings) >= 1
    /\ scoreArgs.dist.negative > 0

\* C7: calculateSatisfactionScore is round(averageRating/5 * 0.6 +
\* sentimentRatio * 0.4, 2 decimals) * 100 with sentimentRatio = positive /
\* max(positive, neutral, negative), and 0.5 when the three counts are zero;
\* ratings [5,5,5,5,1] with four positive and one negative label give 90.
\* The exact value 100 * (...) is n/d below, and the score is the integer
\* within one half of it.
C7_ScoreFormula ==
    (scoreValue # -1) =>
        LET ratings == scoreArgs.ratings
            len == IF Len(ratings) = 0 THEN 1 ELSE Len(ratings)
            dist == scoreArgs.dist
            most == CHOOSE x \in {dist.positive, dist.neutral, dist.negative} :
                        \A y \in {dist.positive, dist.neutral, dist.negative} : x >= y
            n == IF most = 0 THEN 12 * SumSeq(ratings) + 20 * len
                 ELSE 12 * SumSeq(ratings) * most + 40 * dist.positive * len
            d == IF most = 0 THEN len ELSE len * most
        IN  /\ 2 * d * scoreValue - d <= 2 * n
            /\ 2 * n < 2 * d * scoreValue + d
            /\ (ratings = <<5, 5, 5, 5, 1>>
                  /\ dist = [positive |-> 4, neutral |-> 0, negative |-> 1])
                  => scoreValue = 90

C7_Witness ==
    /\ scoreArgs.ratings = <<5, 5, 5, 5, 1>>
    /\ scoreArgs.dist = [positive |-> 4, neutral |-> 0, negative |-> 1]
    /\ scoreValue = 90

\* C8: for every period and every store, the trend returned has at most 30
\* buckets and its period keys are strictly ascending.
C8_TrendCappedAndAscending ==
    (req.kind = "trend" /\ pc = "done" /\ response.status = 200) =>
        /\ Len(Body.data) <= 30
        /\ \A i, j \in 1..Len(Body.data) : i < j => Body.data[i]._id < Body.data[j]._id

C8_Witness ==
    /\ req.kind = "trend"
    /\ pc = "done"
    /\ response.status = 200
    /\ Len(Body.data) = 30
    /\ Len(AllFeedback) > 30

\* C9: a failure of the feedback query of generateChefRecommendation reaches
\* the caller as a hard failure of the request, not as a default recommendation.
C9_StoreFailurePropagates ==
    (req.kind = "chef" /\ storeFault = "feedback" /\ pc = "done") =>
        /\ response.status = 500
        /\ Body.kind = "error"

\* C10: on every path that classifies feedback comments, an empty or
\* whitespace-only comment yields {neutral, 0.5} and the classification
\* capability is not invoked for it.
C10_BlankCommentShortCircuits ==
    \A i \in 1..Len(feedback) :
        feedback[i].comment \in {"", " "} =>
            /\ calls[i] = "skipped"
            /\ results[i] = [label |-> "neutral", score |-> 50]

\* the period keys the trend groups the store by
PeriodKeys(period) ==
    {DateOperator(getDateGrouping(period), AllFeedback[k].createdAt) :
        k \in 1..Len(AllFeedback)}
TrendAnswered == req.kind = "trend" /\ pc = "done" /\ response.status = 200

\* C11: when the store yields more than 30 distinct period keys, the buckets
\* of the trend returned are those of the 30 greatest keys.
C11_OldestBucketsDropped ==
    (TrendAnswered /\ Cardinality(PeriodKeys(req.period)) > 30) =>
        LET keys == PeriodKeys(req.period)
        IN  {Body.data[i]._id : i \in 1..Len(Body.data)} =
                {k \in keys : Cardinality({j \in keys : j > k}) < 30}

\* the timestamp truncated to the granularity of the period: the start of its
\* day, week (Sunday), month or year
Truncated(d, period) ==
    CASE period = "day" -> [year |-> d.year, doy |-> d.doy]
      [] period = "week" -> [day |-> EpochDay(d.year, d.doy) - DayOfWeek(d.year, d.doy)]
      [] period = "month" -> [year |-> d.year, month |-> MonthOf(d.year, d.doy)]
      [] period = "year" -> [year |-> d.year]

\* the records of the store in the truncated period t
PeriodMembers(t, period) ==
    {k \in 1..Len(AllFeedback) : Truncated(AllFeedback[k].createdAt, period) = t}
TruncatedPeriods(period) ==
    {Truncated(AllFeedback[k].createdAt, period) : k \in 1..Len(AllFeedback)}
RECURSIVE RatingSumOf(_)
RatingSumOf(S) ==
    IF S = {} THEN 0
    ELSE LET k == CHOOSE x \in S : TRUE
         IN  AllFeedback[k].rating + RatingSumOf(S \ {k})

\* C12: the trend has one bucket per truncated period of the store (up to the
\* cap of 30), and each bucket's count and average rating are those of the
\* records of one truncated period.
C12_BucketsByTruncatedTimestamp ==
    TrendAnswered =>
        LET periods == TruncatedPeriods(req.period)
        IN  /\ Len(Body.data) = Min2(30, Cardinality(periods))
            /\ \A i \in 1..Len(Body.data) :
                  \E t \in periods :
                      /\ Body.data[i].count = Cardinality(PeriodMembers(t, req.period))
                      /\ Body.data[i].ratingSum = RatingSumOf(PeriodMembers(t, req.period))

\* C13: the sample classified for a bucket is a subset of the records grouped
\* into that bucket, of size min(10, bucket population), so the three sentiment
\* counts of the bucket sum to at least 1 and at most 10.
C13_SampleFromOwnBucket ==
    (req.kind = "trend" /\ Len(trendData) > 0) =>
        LET b == trendData[Len(trendData)]
            grouped == {AllFeedback[k].id : k \in
                           {j \in 1..Len(AllFeedback) :
                               DateOperator(getDateGrouping(req.period),
                                            AllFeedback[j].createdAt) = b._id}}
            total == b.sentiment.positive + b.sentiment.neutral + b.sentiment.negative
        IN  /\ {feedback[i].id : i \in 1..Len(feedback)} \subseteq grouped
            /\ Len(feedback) = Min2(10, b.count)
            /\ 1 <= total /\ total <= 10

\* C14: for a customer with n >= 1 feedback records the recommendation carries
\* min(n, 3) samples, and they are the last 3 entries of the history.
C14_LastThreeSamples ==
    (req.kind = "chef" /\ Body.kind = "recommendation") =>
        LET n == Len(feedback)
            last == {k \in 1..n : k > n - 3}
        IN  /\ Len(Body.feedbackSamples) = Min2(n, 3)
            /\ {Body.feedbackSamples[k].date : k \in 1..Len(Body.feedbackSamples)} =
                   {feedback[k].createdAt : k \in last}

\* C15: in the recentFeedback of the dashboard, of the customer profile and of
\* the food item profile, the sentiment of an entry is the label this request's
\* classification gave the same record.
C15_RecentSentimentOfSameRecord ==
    (req.kind \in Scopes /\ Body.kind = "profile") =>
        \A e \in 1..Len(Body.recentFeedback) :
            \A i \in 1..Len(feedback) :
                feedback[i].id = Body.recentFeedback[e].id =>
                    Body.recentFeedback[e].sentiment = results[i].label

InSynthesis == req.kind = "chef" /\ pc \in {"classify", "summarize", "generate"}
Emitted == req.kind = "chef" /\ pc = "done" /\ Body.kind = "recommendation"

\* the stages of one synthesis, as far as the state shows them
C16_StageInvariant ==
    (req.kind = "chef" /\ Len(feedback) > 0) =>
        /\ Len(calls) = Len(feedback)
        /\ summarizerCalls <= 1
        /\ generatorCalls <= 1
        /\ summarizerCalls = 1 => NonePending
        /\ generatorCalls = 1 => (summarizerCalls = 1 /\ summary # "none")
        /\ (summarizerCalls = 1) <=> (pc \in {"summarize", "generate", "done"})
        /\ (generatorCalls = 1) <=> (pc \in {"generate", "done"})
        /\ pc = "done" =>
              /\ Body.kind = "recommendation"
              /\ Body.priority \in {"low", "normal", "high"}
              /\ Body.sentiment \in Labels
              /\ Body.recommendation \in {"generated_text", "fallback-recommendation"}

\* a step of one synthesis: a settled classify call is not made again, the
\* summarizer is called when the last classify call has settled and the
\* generator when the summarizer has, with its text or the fallback
C16_StageStep ==
    InSynthesis =>
        /\ feedback' = feedback
        /\ \A i \in 1..Len(calls) : calls[i] # "pending" => calls'[i] = calls[i]
        /\ summarizerCalls' >= summarizerCalls
        /\ generatorCalls' >= generatorCalls
        /\ pc' # pc =>
              \/ pc = "classify" /\ pc' = "summarize"
              \/ pc = "summarize" /\ pc' = "generate"
                    /\ summary' \in {"summary_text", "fallback-summary"}
              \/ pc = "generate" /\ pc' = "done" /\ summary' = summary

\* C16: in one synthesis with a non-empty history, whichever external calls
\* fail, every comment is classified once, the summarizer is invoked once and
\* only after every classify call has settled, the generator once and only
\* after the summarizer has settled, nothing is retried, and the request
\* reaches the emit stage with priority and sentiment computed.
C16_FixedStagePath ==
    /\ []C16_StageInvariant
    /\ [][C16_StageStep]_vars
    /\ (InSynthesis ~> Emitted)

C16_Witness ==
    /\ Emitted
    /\ Len(feedback) = 3
    /\ \E i, j \in 1..Len(calls) : calls[i] = "fail" /\ calls[j] = "negative"
    /\ summary = "fallback-summary"
    /\ Body.recommendation = "fallback-recommendation"
====
